---------------------------- MODULE Spec2Model ----------------------------
(***************************************************************************)
(* Model of the SIP cocktails demo: the recipe catalog and its lookup      *)
(* (server/src/cocktails.ts), the two tool handlers (server/src/server.ts) *)
(* and the widget (web/src/widgets/cocktail.tsx): its measurement          *)
(* formatter, its state, its handlers and the unit kept in localStorage.   *)
(*                                                                         *)
(* Strings that the code inspects character by character (ids, names,      *)
(* queries, formatted quantities) are sequences of one-character strings.  *)
(* Long literals that the code only copies (descriptions, taglines, the    *)
(* fixed parts of messages) are sequences holding one multi-character      *)
(* item.  An optional value is None (absent) or Some(v).                   *)
(* A measurement is an integer count of hundredths.                        *)
(***************************************************************************)
EXTENDS Integers, Sequences, FiniteSets

VARIABLES
    cocktails,      \* the catalog: module-level array of cocktails.ts
    req,            \* the latest tool invocation (NoRequest before the first)
    res,            \* the CallToolResult returned for req
    lookup,         \* what getCocktail did inside that handler: returned or threw
    listed,         \* what the latest listCocktails() call returned
    prevListed,     \* what the listCocktails() call before that returned
    ingredient,     \* formatter input: a CocktailIngredient
    unit,           \* formatter input: the MeasurementUnit asked for
    servingIndex,   \* formatter input: the serving selector
    out,            \* what formatMeasurement returned (None before the first call)
    widgetState,    \* per widget session: None while closed, else Some(WidgetState)
    toolOutput,     \* per widget session: what useToolOutput() holds
    pending,        \* per widget session: the callTool requests in flight, oldest first
    localStorage,   \* window.localStorage, shared by the sessions
    delivered,      \* per widget session: the payload delivered to it last
    lastUnit,       \* the latest unit selection: who made it and which unit
    numValue,       \* formatNumber input
    numText,        \* what formatNumber returned for numValue
    normInput,      \* normalize input
    normOnce,       \* normalize(normInput)
    normTwice       \* normalize(normOnce)

vars == <<cocktails, req, res, lookup, listed, prevListed,
          ingredient, unit, servingIndex, out,
          widgetState, toolOutput, pending, localStorage, delivered, lastUnit,
          numValue, numText, normInput, normOnce, normTwice>>

serverVars == <<cocktails, req, res, lookup, listed, prevListed>>
fmtVars == <<ingredient, unit, servingIndex, out>>
widgetVars == <<widgetState, toolOutput, pending, localStorage, delivered, lastUnit>>
numVars == <<numValue, numText>>
normVars == <<normInput, normOnce, normTwice>>

----------------------------------------------------------------------------
(* Bounds of the explored inputs *)

MaxPad == 1           \* longest whitespace padding put around a query
MaxRun == 2           \* longest separator run put between the words of a query
MaxLen == 2           \* longest free-form query over ProbeAlphabet
MaxServingIndex == 4  \* largest serving index tried (the options end at 3)

----------------------------------------------------------------------------
(* Optional values *)

None == <<>>
Some(v) == <<v>>
IsSome(o) == Len(o) = 1
Get(o) == o[1]

----------------------------------------------------------------------------
(* Characters *)

UpperLetters ==
    <<"A", "B", "C", "D", "E", "F", "G", "H", "I", "J", "K", "L", "M",
      "N", "O", "P", "Q", "R", "S", "T", "U", "V", "W", "X", "Y", "Z">>

LowerLetters ==
    <<"a", "b", "c", "d", "e", "f", "g", "h", "i", "j", "k", "l", "m",
      "n", "o", "p", "q", "r", "s", "t", "u", "v", "w", "x", "y", "z">>

\* the characters matched by \s that the model uses
Whitespace == {" ", "\t"}

\* the lower-case and upper-case partner of each letter
LowerOf == [c \in {UpperLetters[i] : i \in 1..26} |->
               LowerLetters[CHOOSE i \in 1..26 : UpperLetters[i] = c]]
UpperOf == [c \in {LowerLetters[i] : i \in 1..26} |->
               UpperLetters[CHOOSE i \in 1..26 : LowerLetters[i] = c]]

\* String.prototype.toLowerCase on one character
toLowerCaseChar(c) == IF c \in DOMAIN LowerOf THEN LowerOf[c] ELSE c

\* String.prototype.toUpperCase on one character
toUpperCaseChar(c) == IF c \in DOMAIN UpperOf THEN UpperOf[c] ELSE c

toLowerCase(s) == [i \in 1..Len(s) |-> toLowerCaseChar(s[i])]
toUpperCase(s) == [i \in 1..Len(s) |-> toUpperCaseChar(s[i])]

\* the index of the first character at or after i that is not whitespace
RECURSIVE trimStart(_, _)
trimStart(s, i) ==
    IF i <= Len(s) /\ s[i] \in Whitespace THEN trimStart(s, i + 1) ELSE i

\* the index of the last character at or before i that is not whitespace
RECURSIVE trimEnd(_, _)
trimEnd(s, i) ==
    IF i >= 1 /\ s[i] \in Whitespace THEN trimEnd(s, i - 1) ELSE i

\* String.prototype.trim: what lies between the first and the last character
\* that is not whitespace
trim(s) == SubSeq(s, trimStart(s, 1), trimEnd(s, Len(s)))

\* the character class [\s-]
IsSepChar(c) == c \in Whitespace \/ c = "-"

\* s.replace(/[\s-]+/g, "_"): every maximal run of [\s-] becomes one "_";
\* the first character of a run is rewritten, the rest of the run is dropped
replaceRuns(s) ==
    LET marked ==
            [i \in 1..Len(s) |->
                IF ~IsSepChar(s[i]) THEN s[i]
                ELSE IF i > 1 /\ IsSepChar(s[i - 1]) THEN ""
                ELSE "_"]
        kept(c) == c # ""
    IN  SelectSeq(marked, kept)

\* a variant of normalize that forgets to lower-case
normalizeNoLower(value) == replaceRuns(trim(value))

\* a variant of normalize whose pattern lacks the "+": every character of
\* [\s-] becomes an underscore of its own
normalizeEachChar(value) ==
    LET t == toLowerCase(trim(value))
    IN  [i \in 1..Len(t) |-> IF IsSepChar(t[i]) THEN "_" ELSE t[i]]

\* a variant of normalize whose pattern lacks the "g" flag: only the first
\* run of [\s-] is replaced
normalizeFirstRun(value) ==
    LET t == toLowerCase(trim(value))
        seps == {i \in 1..Len(t) : IsSepChar(t[i])}
    IN  IF seps = {} THEN t
        ELSE LET from == CHOOSE i \in seps : \A j \in seps : i <= j
                 upto == CHOOSE j \in from..Len(t) :
                             /\ \A k \in from..j : IsSepChar(t[k])
                             /\ j = Len(t) \/ ~IsSepChar(t[j + 1])
             IN  SubSeq(t, 1, from - 1) \o <<"_">> \o SubSeq(t, upto + 1, Len(t))

\* cocktails.ts:203
normalize(value) == replaceRuns(toLowerCase(trim(value)))

----------------------------------------------------------------------------
(* The catalog literal of cocktails.ts *)

ingredients ==
    [ silver_tequila |->
        [ id |-> <<"silver_tequila">>, name |-> <<"Silver Tequila">>,
          subName |-> Some(<<"Blanco">>),
          imagePath |-> <<"https://www.mcpjam.com/silver_tequila.png">> ],
      triple_sec |->
        [ id |-> <<"triple_sec">>, name |-> <<"Triple Sec">>,
          subName |-> Some(<<"Cointreau">>),
          imagePath |-> <<"https://www.mcpjam.com/triple_sec.png">> ],
      lime_juice |->
        [ id |-> <<"lime_juice">>, name |-> <<"Fresh Lime Juice">>,
          subName |-> Some(<<"Yalica's favorite">>),
          imagePath |-> <<"https://www.mcpjam.com/lime_juice.png">> ],
      bourbon_whiskey |->
        [ id |-> <<"bourbon_whiskey">>, name |-> <<"Bourbon Whiskey">>,
          subName |-> Some(<<"Kentucky straight">>),
          imagePath |-> <<"https://www.mcpjam.com/bourbon_whiskey.png">> ],
      aromatic_bitters |->
        [ id |-> <<"aromatic_bitters">>, name |-> <<"Aromatic Bitters">>,
          subName |-> Some(<<"Angostura">>),
          imagePath |-> <<"https://www.mcpjam.com/aromatic_bitters.png">> ],
      simple_syrup |->
        [ id |-> <<"simple_syrup">>, name |-> <<"Simple Syrup">>,
          subName |-> Some(<<"1:1 cane sugar">>),
          imagePath |-> <<"https://www.mcpjam.com/simple_syrup.png">> ],
      maraschino_cherries |->
        [ id |-> <<"maraschino_cherries">>, name |-> <<"Maraschino Cherry">>,
          subName |-> Some(<<"Luxardo">>),
          imagePath |-> <<"https://www.mcpjam.com/maraschino_cherries.png">> ] ]

\* one CocktailIngredient; measurements are in hundredths
Ingredient(asset, ml, oz, part, overrides, note, optional) ==
    [ ingredient |-> asset,
      measurements |-> [ml |-> ml, oz |-> oz, part |-> part],
      displayOverrides |-> overrides,
      note |-> note,
      optional |-> optional ]

Margarita ==
    [ id |-> <<"m", "a", "r", "g", "a", "r", "i", "t", "a">>,
      name |-> <<"M", "a", "r", "g", "a", "r", "i", "t", "a">>,
      tagline |-> <<"Classic Cocktail">>,
      subName |-> Some(<<"Citrus + agave">>),
      imagePath |-> <<"https://www.mcpjam.com/margarita.png">>,
      description |-> <<"The Margarita is a beloved classic cocktail ...">>,
      instructions |-> <<"Rim a glass with salt ...">>,
      hashtags |-> << <<"classic">>, <<"tequila">>, <<"lime">> >>,
      ingredients |->
        << Ingredient(ingredients.silver_tequila, 6000, 200, 200, None,
                      Some(<<"Reposado also works if you want a rounder finish.">>),
                      None),
           Ingredient(ingredients.triple_sec, 3000, 100, 100, None, None, None),
           Ingredient(ingredients.lime_juice, 3000, 100, 100, None, None, None) >>,
      nutrition |-> [abv |-> 1500, sugar |-> 1000, volume |-> 12000, calories |-> 20000],
      garnish |-> Some(<<"Salt rim + lime wheel">>),
      playlistUrl |-> Some(<<"https://open.spotify.com/playlist/5U6pRg2pyDJGsGkyGumy7i">>) ]

OldFashioned ==
    [ id |-> <<"o", "l", "d", "_", "f", "a", "s", "h", "i", "o", "n", "e", "d">>,
      name |-> <<"O", "l", "d", " ", "F", "a", "s", "h", "i", "o", "n", "e", "d">>,
      tagline |-> <<"Classic Whiskey Cocktail">>,
      subName |-> Some(<<"Spirit-forward & silky">>),
      imagePath |-> <<"https://www.mcpjam.com/old_fashioned.png">>,
      description |-> <<"The Old Fashioned is one of the oldest and most iconic whiskey cocktails ...">>,
      instructions |-> <<"Place a sugar cube in an Old Fashioned glass ...">>,
      hashtags |-> << <<"classic">>, <<"whiskey">>, <<"bitters">> >>,
      ingredients |->
        << Ingredient(ingredients.bourbon_whiskey, 6000, 200, 200, None, None, None),
           Ingredient(ingredients.aromatic_bitters, 750, 25, 25,
                      Some([ml |-> <<"2", " ", "d", "a", "s", "h", "e", "s">>,
                            oz |-> <<"2", " ", "d", "a", "s", "h", "e", "s">>]),
                      None, None),
           Ingredient(ingredients.simple_syrup, 750, 25, 25, None, None, None),
           Ingredient(ingredients.maraschino_cherries, 0, 0, 100,
                      Some([ml |-> <<"1", " ", "c", "h", "e", "r", "r", "y">>,
                            oz |-> <<"1", " ", "c", "h", "e", "r", "r", "y">>]),
                      Some(<<"Use as a garnish if you like a touch of sweetness.">>),
                      Some(TRUE)) >>,
      nutrition |-> [abv |-> 3200, sugar |-> 500, volume |-> 9000, calories |-> 15000],
      garnish |-> Some(<<"Large orange twist">>),
      playlistUrl |-> Some(<<"https://open.spotify.com/playlist/1DaQ7EeUAIXGgWHXQl5dUV">>) ]

\* a variant of the catalog whose second recipe is named like the first
ShippedCatalogClashing ==
    << Margarita,
       [OldFashioned EXCEPT !.name = <<"M", "A", "R", "G", "A", "R", "I", "T", "A">>] >>

\* the array literal `cocktails` as shipped
ShippedCatalog == <<Margarita, OldFashioned>>


----------------------------------------------------------------------------
(* Catalog lookup: cocktails.ts *)

\* a function either returns a value or throws an Error
Return(v) == [ok |-> TRUE, value |-> v]
Throw(message) == [ok |-> FALSE, error |-> [message |-> message]]

\* Array.prototype.find: the first element whose index is among `passing`
\* (the indexes of the elements the callback accepts), or undefined
find(array, passing) ==
    IF passing # {}
    THEN Some(array[CHOOSE i \in passing : \A j \in passing : i <= j])
    ELSE None

\* the indexes of the entries whose normalized id is `normalized`
IdMatches(cat, normalized) ==
    {i \in 1..Len(cat) : normalize(cat[i].id) = normalized}

\* the indexes of the entries whose normalized name is `normalized`
NameMatches(cat, normalized) ==
    {i \in 1..Len(cat) : normalize(cat[i].name) = normalized}

\* a ?? b
Coalesce(a, b) == IF IsSome(a) THEN a ELSE b

\* a variant of listCocktails that leaves subName out of the projection
listCocktailsNoSubName(cat) ==
    [i \in 1..Len(cat) |->
        [ id |-> cat[i].id,
          name |-> cat[i].name,
          tagline |-> cat[i].tagline,
          imagePath |-> cat[i].imagePath ]]

\* a variant of listCocktails that puts the display name where the id goes
listCocktailsNameAsId(cat) ==
    [i \in 1..Len(cat) |->
        [ id |-> cat[i].name,
          name |-> cat[i].name,
          tagline |-> cat[i].tagline,
          subName |-> cat[i].subName,
          imagePath |-> cat[i].imagePath ]]

\* cocktails.ts:205-212
listCocktails(cat) ==
    [i \in 1..Len(cat) |->
        [ id |-> cat[i].id,
          name |-> cat[i].name,
          tagline |-> cat[i].tagline,
          subName |-> cat[i].subName,
          imagePath |-> cat[i].imagePath ]]

\* the template literal of the thrown Error
NotFoundMessage(name) ==
    <<"Cocktail ">> \o name \o <<" is not in the curated menu yet.">>

\* a variant of getCocktail that defaults whenever the normalized key is empty
getCocktailBlankAsAbsent(cat, name) ==
    IF ~IsSome(name) \/ normalize(Get(name)) = <<>>
    THEN Return(cat[1])
    ELSE LET normalized == normalize(Get(name))
             cocktail ==
                 Coalesce(find(cat, IdMatches(cat, normalized)),
                          find(cat, NameMatches(cat, normalized)))
         IN  IF ~IsSome(cocktail)
             THEN Throw(NotFoundMessage(Get(name)))
             ELSE Return(Get(cocktail))

\* a variant of getCocktail that defaults only when the argument is undefined
getCocktailUndefinedOnly(cat, name) ==
    IF ~IsSome(name)
    THEN Return(cat[1])
    ELSE LET normalized == normalize(Get(name))
             cocktail ==
                 Coalesce(find(cat, IdMatches(cat, normalized)),
                          find(cat, NameMatches(cat, normalized)))
         IN  IF ~IsSome(cocktail)
             THEN Throw(NotFoundMessage(Get(name)))
             ELSE Return(Get(cocktail))

\* a variant of getCocktail that reports the normalized key in its Error
getCocktailNormalizedMessage(cat, name) ==
    IF ~IsSome(name) \/ Get(name) = <<>>
    THEN Return(cat[1])
    ELSE LET normalized == normalize(Get(name))
             cocktail ==
                 Coalesce(find(cat, IdMatches(cat, normalized)),
                          find(cat, NameMatches(cat, normalized)))
         IN  IF ~IsSome(cocktail)
             THEN Throw(NotFoundMessage(normalized))
             ELSE Return(Get(cocktail))

\* a variant of getCocktail that searches ids and names in a single pass
getCocktailSinglePass(cat, name) ==
    IF ~IsSome(name) \/ Get(name) = <<>>
    THEN Return(cat[1])
    ELSE LET normalized == normalize(Get(name))
             cocktail ==
                 find(cat, IdMatches(cat, normalized) \cup NameMatches(cat, normalized))
         IN  IF ~IsSome(cocktail)
             THEN Throw(NotFoundMessage(Get(name)))
             ELSE Return(Get(cocktail))

\* cocktails.ts:214-230; `!name` holds for undefined and for ""
getCocktail(cat, name) ==
    IF ~IsSome(name) \/ Get(name) = <<>>
    THEN Return(cat[1])
    ELSE LET normalized == normalize(Get(name))
             cocktail ==
                 Coalesce(find(cat, IdMatches(cat, normalized)),
                          find(cat, NameMatches(cat, normalized)))
         IN  IF ~IsSome(cocktail)
             THEN Throw(NotFoundMessage(Get(name)))
             ELSE Return(Get(cocktail))

----------------------------------------------------------------------------
(* Tool handlers: server.ts *)

\* the characters U+2022 (bullet) and U+2014 (em dash)
BULLET == "U+2022"
EMDASH == "U+2014"

TextItem(text) == [type |-> "text", text |-> text]

RenderedNote ==
    <<"Widget rendered with the full recipe. Avoid repeating measurements in plain text.">>

\* Array.prototype.join
RECURSIVE join(_, _)
join(lines, separator) ==
    IF lines = <<>> THEN <<>>
    ELSE IF Len(lines) = 1 THEN lines[1]
    ELSE lines[1] \o separator \o join(Tail(lines), separator)

\* the success branch of the cocktail handler, server.ts:31-51
CocktailSuccess(cat, cocktail) ==
    [ _meta |-> [id |-> cocktail.id],
      structuredContent |->
          [ cocktail |-> cocktail,
            availableCocktails |-> listCocktails(cat) ],
      content |->
          << TextItem(cocktail.name \o <<":", " ">> \o cocktail.description),
             TextItem(RenderedNote) >>,
      isError |-> FALSE ]

\* the catch branch of the cocktail handler, server.ts:52-57
CocktailFailure(error) ==
    [ content |-> << TextItem(<<"Error: ">> \o error.message) >>,
      isError |-> TRUE ]

\* a variant of the handler whose catch branch forgets to mark the error
cocktailWidgetHandlerUnmarked(cat, result) ==
    IF result.ok
    THEN CocktailSuccess(cat, result.value)
    ELSE [ content |-> << TextItem(<<"Error: ">> \o result.error.message) >>,
           isError |-> FALSE ]

\* a variant of the handler that leaves the note out of the content
cocktailWidgetHandlerNoNote(cat, result) ==
    IF result.ok
    THEN [ _meta |-> [id |-> result.value.id],
           structuredContent |->
               [ cocktail |-> result.value,
                 availableCocktails |-> listCocktails(cat) ],
           content |->
               << TextItem(result.value.name \o <<":", " ">>
                           \o result.value.description) >>,
           isError |-> FALSE ]
    ELSE CocktailFailure(result.error)

\* server.ts:30-57, the try/catch of the "cocktail" widget tool handler;
\* result is what the call getCocktail(name) of line 31 did
cocktailWidgetHandler(cat, result) ==
    IF result.ok
    THEN CocktailSuccess(cat, result.value)
    ELSE CocktailFailure(result.error)

\* server.ts:67, one line per summary
SummaryLine(cocktail) ==
    <<BULLET, " ">> \o cocktail.name \o <<" ", EMDASH, " ">> \o cocktail.tagline

\* a variant of the list handler that joins the lines with ", "
listCocktailsHandlerCommas(cat) ==
    LET summaries == listCocktails(cat)
        lines == [i \in 1..Len(summaries) |-> SummaryLine(summaries[i])]
    IN  [ content |->
              << TextItem(<<"Currently curated cocktails:", "\n">>
                          \o join(lines, <<",", " ">>)) >>,
          isError |-> FALSE ]

\* server.ts:65-78, the handler of the "list-cocktails" tool
listCocktailsHandler(cat) ==
    LET summaries == listCocktails(cat)
        lines == [i \in 1..Len(summaries) |-> SummaryLine(summaries[i])]
    IN  [ content |->
              << TextItem(<<"Currently curated cocktails:", "\n">>
                          \o join(lines, <<"\n">>)) >>,
          isError |-> FALSE ]

\* a variant in which serving a request reverses the array in place
catalogAfterCallReversed(cat) == [i \in 1..Len(cat) |-> cat[Len(cat) + 1 - i]]

\* the catalog after a handler ran: neither handler nor lookup writes to it
\* (cocktails.ts:205-230 and server.ts:29-79 only read `cocktails`)
catalogAfterCall(cat) == cat

----------------------------------------------------------------------------
(* Measurement formatter: web/src/widgets/cocktail.tsx *)

\* type MeasurementUnit, and the keys of measurementOptions
Units == {"ml", "oz", "part"}

\* servingOptions; index 0 is the first option, multipliers in hundredths
servingOptions ==
    << [label |-> <<"1/2">>, multiplier |-> 50],
       [label |-> <<"1">>, multiplier |-> 100],
       [label |-> <<"2">>, multiplier |-> 200],
       [label |-> <<"3">>, multiplier |-> 300] >>

\* a variant of getServingMultiplier that clamps the index to the options
getServingMultiplierClamped(index) ==
    IF index + 1 \in DOMAIN servingOptions
    THEN servingOptions[index + 1].multiplier
    ELSE IF index < 0 THEN 50 ELSE 300

\* cocktail.tsx:312; servingOptions[index]?.multiplier ?? 1
getServingMultiplier(index) ==
    IF index + 1 \in DOMAIN servingOptions
    THEN servingOptions[index + 1].multiplier
    ELSE 100

Digits == <<"0", "1", "2", "3", "4", "5", "6", "7", "8", "9">>

\* the decimal digits of a natural number
RECURSIVE IntToString(_)
IntToString(n) ==
    IF n < 10 THEN <<Digits[n + 1]>>
    ELSE IntToString(n \div 10) \o <<Digits[(n % 10) + 1]>>

\* the digits of n, padded with zeros on the left to at least `width`
RECURSIVE ZeroPad(_, _)
ZeroPad(digits, width) ==
    IF Len(digits) >= width THEN digits ELSE ZeroPad(<<"0">> \o digits, width)

\* A JavaScript number on the decimal grid: e4 is its decimal value in
\* ten-thousandths; low tells that the value is not a binary fraction and
\* that the double standing for it lies just below the decimal value
\* (otherwise the double is the decimal value or lies just above it).
Number(e4, low) == [e4 |-> e4, low |-> low]

\* the decimal values that a double holds exactly: multiples of 1/16
IsBinaryFraction(e4) == e4 % 625 = 0

\* Number.prototype.toFixed for a value >= 0 and 1 or 2 fraction digits:
\* the nearest multiple of the last digit to the double; where the decimal
\* value is exactly half way, the larger one unless the double lies below
toFixed(value, fractionDigits) ==
    LET step == IF fractionDigits = 2 THEN 100 ELSE 1000
        pow == IF fractionDigits = 2 THEN 100 ELSE 10
        half == step \div 2
        n == IF value.low /\ value.e4 % step = half
             THEN value.e4 \div step
             ELSE (value.e4 + half) \div step
    IN  IntToString(n \div pow) \o <<".">>
            \o ZeroPad(IntToString(n % pow), fractionDigits)

\* the number of "0" characters at the end of s
RECURSIVE TrailingZeros(_)
TrailingZeros(s) ==
    IF s # <<>> /\ s[Len(s)] = "0"
    THEN 1 + TrailingZeros(SubSeq(s, 1, Len(s) - 1))
    ELSE 0

\* how many characters at the end of s are "0" or "."
RECURSIVE TrailingZerosAndPoints(_)
TrailingZerosAndPoints(s) ==
    IF s # <<>> /\ s[Len(s)] \in {"0", "."}
    THEN 1 + TrailingZerosAndPoints(SubSeq(s, 1, Len(s) - 1))
    ELSE 0

\* a variant of stripTrailingZeros with the pattern /[.0]+$/, which also
\* eats the zeros that end the integer part
stripTrailingZerosGreedy(fixed) ==
    SubSeq(fixed, 1, Len(fixed) - TrailingZerosAndPoints(fixed))

\* fixed.replace(/\.?0+$/, ""): drops the zeros that end the string and
\* a "." standing right before them
stripTrailingZeros(fixed) ==
    LET zeros == TrailingZeros(fixed)
        kept == Len(fixed) - zeros
    IN  IF zeros = 0 THEN fixed
        ELSE IF kept > 0 /\ fixed[kept] = "."
             THEN SubSeq(fixed, 1, kept - 1)
             ELSE SubSeq(fixed, 1, kept)

\* cocktail.tsx:314-321
formatNumber(value) ==
    IF value.e4 % 10000 = 0
    THEN IntToString(value.e4 \div 10000)
    ELSE LET fixed == IF value.e4 < 10000 THEN toFixed(value, 2) ELSE toFixed(value, 1)
         IN  stripTrailingZeros(fixed)

\* ingredient.displayOverrides?.[unit]
overrideOf(ing, u) ==
    IF IsSome(ing.displayOverrides) /\ u \in DOMAIN Get(ing.displayOverrides)
    THEN Some(Get(ing.displayOverrides)[u])
    ELSE None

DASH == <<"D", "a", "s", "h">>

\* The products baseValue * servings, for measurements up to 2.30 and the
\* multipliers 0.5, 1, 2 and 3, whose decimal value lies half way between two
\* candidates of toFixed while the double that the multiplication yields
\* lies below it: 0.35 * 3 is 1.0499999999999998, 1.15 * 1 is
\* 1.149999999999999911.  Each pair is <<baseValue, servings>> in hundredths.
TiesBelow ==
    { <<3, 50>>, <<9, 50>>, <<15, 50>>, <<21, 50>>, <<29, 50>>, <<31, 50>>,
      <<35, 50>>, <<35, 300>>, <<37, 50>>, <<41, 50>>, <<43, 50>>, <<47, 50>>,
      <<49, 50>>, <<57, 50>>, <<59, 50>>, <<61, 50>>, <<69, 50>>, <<71, 50>>,
      <<73, 50>>, <<83, 50>>, <<85, 50>>, <<85, 300>>, <<87, 50>>, <<95, 50>>,
      <<95, 300>>, <<97, 50>>, <<99, 50>>, <<113, 50>>, <<115, 50>>,
      <<115, 100>>, <<115, 300>>, <<117, 50>>, <<119, 50>>, <<121, 50>>,
      <<123, 50>>, <<139, 50>>, <<141, 50>>, <<143, 50>>, <<145, 50>>,
      <<145, 100>>, <<145, 300>>, <<147, 50>>, <<149, 50>>, <<163, 50>>,
      <<165, 50>>, <<165, 100>>, <<165, 300>>, <<167, 50>>, <<169, 50>>,
      <<171, 50>>, <<173, 50>>, <<189, 50>>, <<191, 50>>, <<193, 50>>,
      <<195, 50>>, <<195, 100>>, <<195, 300>>, <<197, 50>>, <<199, 50>>,
      <<205, 100>>, <<205, 300>>, <<215, 100>>, <<215, 300>>, <<230, 50>> }

\* baseValue * servings, with baseValue in hundredths and servings in
\* hundredths.  A product that is a binary fraction is exact; of the others
\* the side of the double is recorded where toFixed reads it, at the ties.
Times(baseValue, servings) ==
    Number(baseValue * servings, <<baseValue, servings>> \in TiesBelow)

\* a variant of formatScaled that leaves the serving multiplier out
formatScaledUnscaled(baseValue, u, servings) ==
    LET scaled == Times(baseValue, 100)
    IN  IF u = "part"
        THEN formatNumber(scaled) \o <<" ", "p", "a", "r", "t">>
                 \o (IF scaled.e4 # 10000 THEN <<"s">> ELSE <<>>)
        ELSE LET suffix == IF u = "oz" THEN <<"o", "z">> ELSE <<"m", "l">>
             IN  formatNumber(scaled) \o <<" ">> \o suffix

\* a variant of formatScaled that pluralizes on the base measurement
formatScaledPluralByBase(baseValue, u, servings) ==
    LET scaled == Times(baseValue, servings)
    IN  IF u = "part"
        THEN formatNumber(scaled) \o <<" ", "p", "a", "r", "t">>
                 \o (IF baseValue # 100 THEN <<"s">> ELSE <<>>)
        ELSE LET suffix == IF u = "oz" THEN <<"o", "z">> ELSE <<"m", "l">>
             IN  formatNumber(scaled) \o <<" ">> \o suffix

\* cocktail.tsx:334-340, the part of formatMeasurement that renders a number
formatScaled(baseValue, u, servings) ==
    LET scaled == Times(baseValue, servings)
    IN  IF u = "part"
        THEN formatNumber(scaled) \o <<" ", "p", "a", "r", "t">>
                 \o (IF scaled.e4 # 10000 THEN <<"s">> ELSE <<>>)
        ELSE LET suffix == IF u = "oz" THEN <<"o", "z">> ELSE <<"m", "l">>
             IN  formatNumber(scaled) \o <<" ">> \o suffix

\* a variant of formatMeasurement that tests the measurement before the override
formatMeasurementZeroFirst(ing, u, servings) ==
    LET override == overrideOf(ing, u)
        baseValue == ing.measurements[u]
    IN  IF baseValue = 0 THEN DASH
        ELSE IF IsSome(override) /\ Get(override) # <<>> THEN Get(override)
        ELSE formatScaled(baseValue, u, servings)

\* a variant of formatMeasurement without the "Dash" fallback
formatMeasurementNoDash(ing, u, servings) ==
    LET override == overrideOf(ing, u)
        baseValue == ing.measurements[u]
    IN  IF IsSome(override) /\ Get(override) # <<>> THEN Get(override)
        ELSE formatScaled(baseValue, u, servings)

\* cocktail.tsx:323-341; `if (override)` fails for undefined and for "",
\* `if (!baseValue)` holds for 0
formatMeasurement(ing, u, servings) ==
    LET override == overrideOf(ing, u)
        baseValue == ing.measurements[u]
    IN  IF IsSome(override) /\ Get(override) # <<>> THEN Get(override)
        ELSE IF baseValue = 0 THEN DASH
        ELSE formatScaled(baseValue, u, servings)

----------------------------------------------------------------------------
(* The widget component: web/src/widgets/cocktail.tsx *)

MEASUREMENT_STORAGE_KEY == "sip-cocktails-measurement"

measurementOptions ==
    << [label |-> "ML", key |-> "ml"],
       [label |-> "OZ", key |-> "oz"],
       [label |-> "PART", key |-> "part"] >>

\* window.localStorage.getItem(key): null for a key never set
getItem(storage, key) == IF key \in DOMAIN storage THEN Some(storage[key]) ELSE None

\* a variant of setItem that keeps a value already stored under the key
setItemIfAbsent(storage, key, value) ==
    [k \in DOMAIN storage \cup {key} |-> IF k \in DOMAIN storage THEN storage[k] ELSE value]

\* window.localStorage.setItem(key, value)
setItem(storage, key, value) ==
    [k \in DOMAIN storage \cup {key} |-> IF k = key THEN value ELSE storage[k]]

\* the argument of useWidgetState, cocktail.tsx:497-505; output is what
\* useToolOutput() holds at the first render
InitialWidgetState(output) ==
    [ currentCocktail |-> IF IsSome(output) THEN Some(Get(output).cocktail) ELSE None,
      availableCocktails |-> IF IsSome(output) THEN Get(output).availableCocktails ELSE <<>>,
      selectedMeasurementKey |-> "ml",
      selectedServingIndex |-> 1,
      userNote |-> <<>>,
      isBookmarked |-> FALSE,
      rating |-> 0 ]

\* a variant of withPayload that keeps the list of the previous payload
withPayloadCocktailOnly(previous, data) ==
    [previous EXCEPT !.currentCocktail = Some(data.cocktail)]

\* a variant of withPayload that does not spread the previous state: the
\* other fields fall back to their initial values
withPayloadReplacing(previous, data) ==
    [ currentCocktail |-> Some(data.cocktail),
      availableCocktails |-> data.availableCocktails,
      selectedMeasurementKey |-> "ml",
      selectedServingIndex |-> 1,
      userNote |-> <<>>,
      isBookmarked |-> FALSE,
      rating |-> 0 ]

\* the updater that installs a payload, cocktail.tsx:512-516 and 545-549
withPayload(previous, data) ==
    [previous EXCEPT !.currentCocktail = Some(data.cocktail),
                     !.availableCocktails = data.availableCocktails]

\* the effect on toolOutput, cocktail.tsx:507-517
toolOutputEffect(previous, output) ==
    IF ~IsSome(output) THEN previous ELSE withPayload(previous, Get(output))

\* a variant of storedUnitEffect that adopts whatever is stored
storedUnitEffectUnchecked(previous, storage) ==
    LET storedValue == getItem(storage, MEASUREMENT_STORAGE_KEY)
    IN  IF IsSome(storedValue) /\ Get(storedValue) # ""
        THEN [previous EXCEPT !.selectedMeasurementKey = Get(storedValue)]
        ELSE previous

\* the effect reading the stored unit, cocktail.tsx:519-530
storedUnitEffect(previous, storage) ==
    LET storedValue == getItem(storage, MEASUREMENT_STORAGE_KEY)
    IN  IF /\ IsSome(storedValue)
           /\ Get(storedValue) # ""
           /\ \E i \in 1..Len(measurementOptions) :
                  measurementOptions[i].key = Get(storedValue)
        THEN [previous EXCEPT !.selectedMeasurementKey = Get(storedValue)]
        ELSE previous

\* the state after the first render and its effects
mounted(output, storage) ==
    storedUnitEffect(toolOutputEffect(InitialWidgetState(output), output), storage)

\* a variant of `disabled` that forgets the call in flight
disabledCurrentOnly(state, cocktailId, callPending) ==
    cocktailId = Get(state.currentCocktail).id

\* `disabled` of a "More Cocktails" button, cocktail.tsx:791
disabled(state, cocktailId, callPending) ==
    cocktailId = Get(state.currentCocktail).id \/ callPending

\* const servings = getServingMultiplier(selectedServingIndex), cocktail.tsx:601
servings(state) == getServingMultiplier(state.selectedServingIndex)

----------------------------------------------------------------------------
(* Requests explored for the "cocktail" tool *)

\* characters that may stand between two words of a key
WordBreaks == {"_", " ", "-"}

\* the words of a key, cut at every word break
RECURSIVE SplitWords(_, _)
SplitWords(s, word) ==
    IF s = <<>> THEN <<word>>
    ELSE IF Head(s) \in WordBreaks
         THEN <<word>> \o SplitWords(Tail(s), <<>>)
         ELSE SplitWords(Tail(s), word \o <<Head(s)>>)

\* all sequences over chars of length lo..hi
SeqsOver(chars, lo, hi) == UNION {[1..k -> chars] : k \in lo..hi}

\* runs of blanks and hyphens, a tab, and the underscore the ids are written with
SepRuns == {<<"_">>, <<"\t">>} \cup SeqsOver({" ", "-"}, 1, MaxRun)

Pads == SeqsOver({" "}, 0, MaxPad)

\* a key as written (ids in lower case, names capitalised), in lower case and
\* in upper case
CaseVariants(s) == {s, toLowerCase(s), toUpperCase(s)}

\* every way of writing a key: any case, padded, any run between its words
SpellingsOfKey(key) ==
    LET words == SplitWords(key, <<>>)
    IN  { left \o cased \o right :
            left \in Pads, right \in Pads,
            cased \in UNION { CaseVariants(join(words, run)) : run \in SepRuns } }

\* every way of writing the id or the name of a recipe
Spellings(entry) == SpellingsOfKey(entry.id) \cup SpellingsOfKey(entry.name)

SpellingTable == [i \in 1..Len(ShippedCatalog) |-> Spellings(ShippedCatalog[i])]

OldHyphenFashioned ==
    <<"O", "l", "d", "-", "F", "a", "s", "h", "i", "o", "n", "e", "d">>

OldSpacesFashioned ==
    <<" ", " ", "o", "l", "d", " ", " ", " ", "f", "a", "s", "h", "i", "o", "n", "e", "d", " ">>

OLD_FASHIONED ==
    <<"O", "L", "D", "_", "F", "A", "S", "H", "I", "O", "N", "E", "D">>

NotARealDrink ==
    <<"n", "o", "t", "-", "a", "-", "r", "e", "a", "l", "-", "d", "r", "i", "n", "k">>

\* the queries written out in the specification
ExampleQueries == {OldHyphenFashioned, OldSpacesFashioned, OLD_FASHIONED, NotARealDrink}

\* keys that are almost, but not, a catalog key
NearMisses ==
    UNION { { entry.id \o <<"s">>,
              <<"_">> \o entry.id,
              <<"-">> \o entry.name,
              entry.name \o <<"-">>,
              join(SplitWords(entry.id, <<>>), <<>>),
              join(SplitWords(entry.id, <<>>), <<"_", "_">>),
              join(SplitWords(entry.name, <<>>), <<"-", "_">>) }
            : entry \in {ShippedCatalog[i] : i \in 1..Len(ShippedCatalog)} }

ProbeAlphabet == {"a", " ", "-", "_"}

\* short free-form queries, the empty string among them
FreeForm == SeqsOver(ProbeAlphabet, 0, MaxLen)

Queries ==
    UNION {SpellingTable[i] : i \in 1..Len(ShippedCatalog)}
        \cup ExampleQueries \cup NearMisses \cup FreeForm

\* the `name` argument: absent, or any explored string
NameInputs == {None} \cup {Some(q) : q \in Queries}

----------------------------------------------------------------------------
(* The server *)

NoRequest == [tool |-> "none"]
NoResponse == [content |-> <<>>]
NoLookup == [called |-> FALSE]

ServerInit ==
    /\ cocktails = ShippedCatalog
    /\ req = NoRequest
    /\ res = NoResponse
    /\ lookup = NoLookup
    /\ listed = None
    /\ prevListed = None

\* the host invokes the "cocktail" tool, server.ts:29-58
CallCocktailWith(name) ==
    /\ req' = [tool |-> "cocktail", name |-> name]
    /\ lookup' = getCocktail(cocktails, name)
    /\ res' = cocktailWidgetHandler(cocktails, lookup')
    /\ IF lookup'.ok
       THEN /\ listed' = Some(listCocktails(cocktails))
            /\ prevListed' = listed
       ELSE UNCHANGED <<listed, prevListed>>
    /\ cocktails' = catalogAfterCall(cocktails)
    /\ UNCHANGED <<fmtVars, widgetVars, numVars, normVars>>

CallCocktail == \E name \in NameInputs : CallCocktailWith(name)

\* the host invokes the "list-cocktails" tool, server.ts:61-79
CallListCocktails ==
    /\ req' = [tool |-> "list-cocktails"]
    /\ res' = listCocktailsHandler(cocktails)
    /\ lookup' = NoLookup
    /\ listed' = Some(listCocktails(cocktails))
    /\ prevListed' = listed
    /\ cocktails' = catalogAfterCall(cocktails)
    /\ UNCHANGED <<fmtVars, widgetVars, numVars, normVars>>

FmtIdle ==
    /\ ingredient = Ingredient(ingredients.lime_juice, 3000, 100, 100, None, None, None)
    /\ unit = "ml"
    /\ servingIndex = 1
    /\ out = None

\* the widget sessions that may be open at once
Sessions == {1, 2}

Closed == [s \in Sessions |-> None]
NoCalls == [s \in Sessions |-> <<>>]

WidgetIdle ==
    /\ widgetState = Closed
    /\ toolOutput = Closed
    /\ pending = NoCalls
    /\ delivered = Closed
    /\ localStorage = <<>>
    /\ lastUnit = None

NumIdle ==
    /\ numValue = Number(0, FALSE)
    /\ numText = None

NormIdle ==
    /\ normInput = <<>>
    /\ normOnce = None
    /\ normTwice = None

Init == ServerInit /\ FmtIdle /\ WidgetIdle /\ NumIdle /\ NormIdle

Next == CallCocktail \/ CallListCocktails

Spec == Init /\ [][Next]_vars

----------------------------------------------------------------------------
(* The formatter applied to explored ingredients *)

TwoDashes == <<"2", " ", "d", "a", "s", "h", "e", "s">>

\* override strings tried: the empty string and one from the catalog
OverrideTexts == {<<>>, TwoDashes}

\* displayOverrides: absent, or a record over any subset of the units
OverrideInputs ==
    {None} \cup {Some(f) : f \in UNION {[D -> OverrideTexts] : D \in SUBSET Units}}

\* measurement values tried, in hundredths: 0, 0.25, 1, 2 and 7.5 as in the catalog
BaseInputs == {0, 25, 100, 200, 750}

CatalogIngredients ==
    UNION { {ShippedCatalog[i].ingredients[k] : k \in 1..Len(ShippedCatalog[i].ingredients)}
            : i \in 1..Len(ShippedCatalog) }

IngredientInputs ==
    CatalogIngredients \cup
    { [ ingredient |-> ingredients.simple_syrup,
        measurements |-> m,
        displayOverrides |-> o,
        note |-> None,
        optional |-> None ] : m \in [Units -> BaseInputs], o \in OverrideInputs }

\* serving selectors tried; -1 and those above 3 are out of range
ServingIndexInputs == (-1)..MaxServingIndex

FmtInit ==
    /\ ServerInit /\ WidgetIdle /\ NumIdle /\ NormIdle
    /\ ingredient \in IngredientInputs
    /\ unit = "ml"
    /\ servingIndex = 1
    /\ out = None

\* the ingredient row is rendered, cocktail.tsx:323-341 with the multiplier of :312
Format ==
    \E u \in Units, index \in ServingIndexInputs :
        /\ unit' = u
        /\ servingIndex' = index
        /\ out' = Some(formatMeasurement(ingredient, u, getServingMultiplier(index)))
        /\ UNCHANGED <<ingredient, serverVars, widgetVars, numVars, normVars>>

FmtNext == Format

SpecFmt == FmtInit /\ [][FmtNext]_vars

----------------------------------------------------------------------------
(* The widget: sessions, tool outputs, switches and the stored unit *)

\* menus a server may list: the shipped one and the same recipes reordered
Menus == {ShippedCatalog, <<OldFashioned, Margarita>>}

\* payloads of the "cocktail" tool (CocktailToolData)
ToolOutputInputs ==
    {CocktailSuccess(menu, menu[i]).structuredContent :
        menu \in Menus, i \in 1..Len(ShippedCatalog)}

\* what localStorage may hold under the key before any session opens:
\* nothing, a unit, or a value that is not a unit
StoredInputs == {"oz", "part", "cups", ""}

StorageInputs ==
    {<<>>} \cup {setItem(<<>>, MEASUREMENT_STORAGE_KEY, v) : v \in StoredInputs}

NoteInputs == {<<>>, <<"x">>}

WidgetInit ==
    /\ ServerInit /\ FmtIdle /\ NumIdle /\ NormIdle
    /\ widgetState = Closed
    /\ toolOutput = Closed
    /\ pending = NoCalls
    /\ delivered = Closed
    /\ localStorage \in StorageInputs
    /\ lastUnit = None

IsOpen(s) == IsSome(widgetState[s])
State(s) == Get(widgetState[s])
\* isPending of useCallTool: some call of the session has not completed
isPending(s) == pending[s] # <<>>

\* the controls are rendered only once a cocktail is known, cocktail.tsx:593
Rendered(s) == IsOpen(s) /\ IsSome(State(s).currentCocktail)

NotWidget == <<serverVars, fmtVars, numVars, normVars>>

\* the host renders the widget: first render and both effects,
\* cocktail.tsx:488-530
Mount(s, output) ==
    /\ ~IsOpen(s)
    /\ toolOutput' = [toolOutput EXCEPT ![s] = output]
    /\ widgetState' = [widgetState EXCEPT ![s] = Some(mounted(output, localStorage))]
    /\ delivered' = [delivered EXCEPT ![s] = output]
    /\ UNCHANGED <<pending, localStorage, lastUnit, NotWidget>>

\* the host closes the widget; its state and its calls in flight are dropped
Close(s) ==
    /\ IsOpen(s)
    /\ widgetState' = [widgetState EXCEPT ![s] = None]
    /\ toolOutput' = [toolOutput EXCEPT ![s] = None]
    /\ pending' = [pending EXCEPT ![s] = <<>>]
    /\ delivered' = [delivered EXCEPT ![s] = None]
    /\ UNCHANGED <<localStorage, lastUnit, NotWidget>>

\* useToolOutput() yields a new payload and the effect of
\* cocktail.tsx:507-517 runs
ToolOutputArrives(s, data) ==
    /\ IsOpen(s)
    /\ toolOutput' = [toolOutput EXCEPT ![s] = Some(data)]
    /\ widgetState' =
           [widgetState EXCEPT ![s] = Some(toolOutputEffect(State(s), Some(data)))]
    /\ delivered' = [delivered EXCEPT ![s] = Some(data)]
    /\ UNCHANGED <<pending, localStorage, lastUnit, NotWidget>>

\* a variant of handleSelectCocktail without its early return
handleSelectCocktailAlways(s, cocktailId) ==
    /\ Rendered(s)
    /\ pending' = [pending EXCEPT ![s] = Append(@, [name |-> Some(cocktailId)])]
    /\ UNCHANGED <<widgetState, toolOutput, localStorage, delivered, lastUnit, NotWidget>>

\* cocktail.tsx:536-553: nothing for the id of the cocktail shown, else
\* callTool({ name: cocktailId }, ...)
handleSelectCocktail(s, cocktailId) ==
    /\ Rendered(s)
    /\ IF cocktailId = Get(State(s).currentCocktail).id
       THEN UNCHANGED pending
       ELSE pending' = [pending EXCEPT ![s] = Append(@, [name |-> Some(cocktailId)])]
    /\ UNCHANGED <<widgetState, toolOutput, localStorage, delivered, lastUnit, NotWidget>>

\* a click on the "More Cocktails" button of cocktailId, which works only
\* while the button is not disabled, cocktail.tsx:786-804
ClickMoreCocktails(s, cocktailId) ==
    /\ Rendered(s)
    /\ ~disabled(State(s), cocktailId, isPending(s))
    /\ handleSelectCocktail(s, cocktailId)

\* the response of the server to a call of the widget, server.ts:29-58
ResponseTo(call) ==
    cocktailWidgetHandler(ShippedCatalog, getCocktail(ShippedCatalog, call.name))

\* pending[s] without its k-th call
Completed(s, k) ==
    [pending EXCEPT ![s] = SubSeq(@, 1, k - 1) \o SubSeq(@, k + 1, Len(@))]

\* a call in flight succeeds: onSuccess, cocktail.tsx:544-550
SwitchSucceeds(s) ==
    /\ IsOpen(s)
    /\ \E k \in 1..Len(pending[s]) :
          LET response == ResponseTo(pending[s][k])
          IN  /\ ~response.isError
              /\ widgetState' =
                     [widgetState EXCEPT ![s] =
                         Some(withPayload(State(s), response.structuredContent))]
              /\ delivered' = [delivered EXCEPT ![s] = Some(response.structuredContent)]
              /\ pending' = Completed(s, k)
    /\ UNCHANGED <<toolOutput, localStorage, lastUnit, NotWidget>>

\* a call in flight fails: onSuccess is not called
SwitchFails(s) ==
    /\ IsOpen(s)
    /\ \E k \in 1..Len(pending[s]) : pending' = Completed(s, k)
    /\ UNCHANGED <<widgetState, toolOutput, localStorage, delivered, lastUnit, NotWidget>>

\* cocktail.tsx:555-563
handleMeasurementChange(s, u) ==
    /\ Rendered(s)
    /\ widgetState' =
           [widgetState EXCEPT ![s] = Some([State(s) EXCEPT !.selectedMeasurementKey = u])]
    /\ localStorage' = setItem(localStorage, MEASUREMENT_STORAGE_KEY, u)
    /\ lastUnit' = Some([session |-> s, unit |-> u])
    /\ UNCHANGED <<toolOutput, pending, delivered, NotWidget>>

\* a variant of handleServingChange that writes the index into every open
\* session, as a state shared between the sessions would
handleServingChangeShared(s, index) ==
    /\ Rendered(s)
    /\ widgetState' =
           [t \in Sessions |->
               IF IsOpen(t)
               THEN Some([State(t) EXCEPT !.selectedServingIndex = index])
               ELSE None]
    /\ UNCHANGED <<toolOutput, pending, localStorage, delivered, lastUnit, NotWidget>>

\* cocktail.tsx:565-570
handleServingChange(s, index) ==
    /\ Rendered(s)
    /\ widgetState' =
           [widgetState EXCEPT ![s] = Some([State(s) EXCEPT !.selectedServingIndex = index])]
    /\ UNCHANGED <<toolOutput, pending, localStorage, delivered, lastUnit, NotWidget>>

\* cocktail.tsx:572-577
handleNoteChange(s, note) ==
    /\ Rendered(s)
    /\ widgetState' =
           [widgetState EXCEPT ![s] = Some([State(s) EXCEPT !.userNote = note])]
    /\ UNCHANGED <<toolOutput, pending, localStorage, delivered, lastUnit, NotWidget>>

\* cocktail.tsx:579-584
toggleBookmark(s) ==
    /\ Rendered(s)
    /\ widgetState' =
           [widgetState EXCEPT ![s] = Some([State(s) EXCEPT !.isBookmarked = ~@])]
    /\ UNCHANGED <<toolOutput, pending, localStorage, delivered, lastUnit, NotWidget>>

\* cocktail.tsx:586-591
toggleRating(s) ==
    /\ Rendered(s)
    /\ widgetState' =
           [widgetState EXCEPT ![s] =
               Some([State(s) EXCEPT !.rating = IF @ = 0 THEN 1 ELSE 0])]
    /\ UNCHANGED <<toolOutput, pending, localStorage, delivered, lastUnit, NotWidget>>

\* the ids of the "More Cocktails" buttons of session s
ButtonIds(s) ==
    IF Rendered(s)
    THEN {State(s).availableCocktails[i].id : i \in 1..Len(State(s).availableCocktails)}
    ELSE {}

\* one session with every control and every input explored
WidgetNext ==
    \/ \E output \in {None} \cup {Some(d) : d \in ToolOutputInputs} : Mount(1, output)
    \/ \E data \in ToolOutputInputs : ToolOutputArrives(1, data)
    \/ \E cocktailId \in ButtonIds(1) : ClickMoreCocktails(1, cocktailId)
    \/ SwitchSucceeds(1)
    \/ SwitchFails(1)
    \/ \E u \in Units : handleMeasurementChange(1, u)
    \/ \E index \in ServingIndexInputs : handleServingChange(1, index)
    \/ \E note \in NoteInputs : handleNoteChange(1, note)
    \/ toggleBookmark(1)
    \/ toggleRating(1)

SpecWidget == WidgetInit /\ [][WidgetNext]_vars

\* the payloads delivered when several sessions are explored
FirstOutput == CocktailSuccess(ShippedCatalog, Margarita).structuredContent
SecondOutput == CocktailSuccess(ShippedCatalog, OldFashioned).structuredContent

\* several sessions that open, close and select units
SessionsNext ==
    \E s \in Sessions :
        \/ Mount(s, None)
        \/ Mount(s, Some(FirstOutput))
        \/ Close(s)
        \/ ToolOutputArrives(s, SecondOutput)
        \/ \E u \in Units : handleMeasurementChange(s, u)

SpecSessions == WidgetInit /\ [][SessionsNext]_vars

\* two sessions that open on the same payload and use every control
PrivacyNext ==
    \E s \in Sessions :
        \/ Mount(s, Some(FirstOutput))
        \/ \E u \in Units : handleMeasurementChange(s, u)
        \/ handleServingChange(s, 0)
        \/ handleNoteChange(s, <<"x">>)
        \/ toggleBookmark(s)
        \/ toggleRating(s)

SpecPrivacy == WidgetInit /\ [][PrivacyNext]_vars

\* the most calls the harness below lets be in flight
MaxInFlight == 2

\* handleSelectCocktail called directly with every listed id, the one of
\* the cocktail shown included and whether or not a call is in flight
SelectNext ==
    \/ \E data \in ToolOutputInputs : Mount(1, Some(data))
    \/ \E data \in ToolOutputInputs : ToolOutputArrives(1, data)
    \/ \E cocktailId \in ButtonIds(1) :
           Len(pending[1]) < MaxInFlight /\ handleSelectCocktail(1, cocktailId)
    \/ SwitchSucceeds(1)
    \/ SwitchFails(1)
    \/ toggleBookmark(1)

SpecSelect == WidgetInit /\ [][SelectNext]_vars

----------------------------------------------------------------------------
(* The lookup applied to explored catalogs *)

\* the longest catalog explored
MaxCatalog == 2

\* ids and names given to the recipes of an explored catalog
LookupKeys == {<<"a">>, <<"A">>, <<"b">>}

\* a recipe with the given id and name; its tagline tells its place in the
\* catalog, so that two recipes of a catalog are never the same value
Recipe(id, name, place) ==
    [Margarita EXCEPT !.id = id, !.name = name, !.tagline = IntToString(place)]

\* the catalogs of 1..MaxCatalog recipes over the keys
CatalogInputs ==
    UNION { { [i \in 1..n |-> Recipe(ids[i], names[i], i)] :
                ids \in [1..n -> LookupKeys], names \in [1..n -> LookupKeys] }
            : n \in 1..MaxCatalog }

\* the `name` arguments tried on them
LookupInputs == {None, Some(<<>>), Some(<<"c">>)} \cup {Some(k) : k \in LookupKeys}

LookupInit ==
    /\ cocktails \in CatalogInputs
    /\ req = NoRequest
    /\ res = NoResponse
    /\ lookup = NoLookup
    /\ listed = None
    /\ prevListed = None
    /\ FmtIdle /\ WidgetIdle /\ NumIdle /\ NormIdle

LookupNext == \E name \in LookupInputs : CallCocktailWith(name)

SpecLookup == LookupInit /\ [][LookupNext]_vars

----------------------------------------------------------------------------
(* normalize applied to explored strings *)

\* the longest string explored
MaxText == 4

\* a lower-case and an upper-case letter, two kinds of whitespace, the
\* hyphen and the underscore
NormAlphabet == {"a", "B", " ", "\t", "-", "_"}

TextInputs == SeqsOver(NormAlphabet, 0, MaxText)

NormInit ==
    /\ ServerInit /\ FmtIdle /\ WidgetIdle /\ NumIdle
    /\ normInput \in TextInputs
    /\ normOnce = None
    /\ normTwice = None

\* normalize is applied to the string, and again to its result
Normalize ==
    /\ normOnce = None
    /\ normOnce' = Some(normalize(normInput))
    /\ normTwice' = Some(normalize(normalize(normInput)))
    /\ UNCHANGED <<normInput, serverVars, fmtVars, widgetVars, numVars>>

NormNext == Normalize

SpecNorm == NormInit /\ [][NormNext]_vars

----------------------------------------------------------------------------
(* formatNumber applied to explored numbers *)

\* the numbers explored are 0, 0.0025, 0.005, ... up to MaxGrid steps of
\* 0.0025, which reaches past 10
MaxGrid == 4200

\* every such decimal value as the double that holds it exactly or lies
\* just above it and, unless the value is a binary fraction, as the double
\* that lies just below it
NumberInputs ==
    {Number(25 * k, FALSE) : k \in 0..MaxGrid}
        \cup {Number(25 * k, TRUE) : k \in {j \in 0..MaxGrid : ~IsBinaryFraction(25 * j)}}

NumInit ==
    /\ ServerInit /\ FmtIdle /\ WidgetIdle /\ NormIdle
    /\ numValue \in NumberInputs
    /\ numText = None

\* formatNumber is applied to the number, cocktail.tsx:314-321
FormatNumber ==
    /\ numText = None
    /\ numText' = Some(formatNumber(numValue))
    /\ UNCHANGED <<numValue, serverVars, fmtVars, widgetVars, normVars>>

NumNext == FormatNumber

SpecNum == NumInit /\ [][NumNext]_vars

----------------------------------------------------------------------------
(* formatMeasurement applied to part measurements on the hundredths grid *)

MaxPart == 210   \* largest part measurement tried, in hundredths (2.10)

\* ingredients without overrides whose part measurement is positive
PartInputs ==
    { Ingredient(ingredients.simple_syrup, 3000, 100, part, None, None, None)
        : part \in 1..MaxPart }

PartInit ==
    /\ ServerInit /\ WidgetIdle /\ NumIdle /\ NormIdle
    /\ ingredient \in PartInputs
    /\ unit = "part"
    /\ servingIndex = 1
    /\ out = None

\* the row is rendered in parts at one of the four serving options,
\* cocktail.tsx:323-341 with the multiplier of :312
FormatPart ==
    \E index \in 0..(Len(servingOptions) - 1) :
        /\ servingIndex' = index
        /\ out' = Some(formatMeasurement(ingredient, "part", getServingMultiplier(index)))
        /\ UNCHANGED <<ingredient, unit, serverVars, widgetVars, numVars, normVars>>

PartNext == FormatPart

SpecPart == PartInit /\ [][PartNext]_vars

----------------------------------------------------------------------------
(* Properties *)

\* text holds piece as a contiguous part
Contains(text, piece) ==
    \E i \in 1..(Len(text) - Len(piece) + 1) :
        SubSeq(text, i, i + Len(piece) - 1) = piece

IsCocktailCall == req.tool = "cocktail"
IsListCall == req.tool = "list-cocktails"

\* the query of a "cocktail" call that passed a string
HasQuery == IsCocktailCall /\ IsSome(req.name)
Query == Get(req.name)

\* no recipe has a normalized id or a normalized name equal to the normalized q
MatchesNothing(q) ==
    \A i \in 1..Len(cocktails) :
        /\ normalize(cocktails[i].id) # normalize(q)
        /\ normalize(cocktails[i].name) # normalize(q)

\* C1: getCocktail called with a recipe's id or name, in any letter case,
\* padded with whitespace and with any run of whitespace and hyphens between
\* its words, returns that recipe; "Old-Fashioned" yields the recipe named
\* "Old Fashioned".
C1_SpellingsResolve ==
    HasQuery =>
        /\ \A i \in 1..Len(ShippedCatalog) :
              Query \in SpellingTable[i] =>
                  /\ lookup.ok
                  /\ lookup.value = ShippedCatalog[i]
        /\ Query \in {OldHyphenFashioned, OldSpacesFashioned, OLD_FASHIONED} =>
              /\ lookup.ok
              /\ lookup.value = OldFashioned
              /\ "structuredContent" \in DOMAIN res
              /\ res.structuredContent.cocktail.name = OldFashioned.name

C1_Witness ==
    /\ HasQuery
    /\ Query = OldHyphenFashioned
    /\ lookup.ok
    /\ res.structuredContent.cocktail.name = OldFashioned.name

\* C2: with the query absent or empty, getCocktail returns the first recipe
\* of the catalog (Margarita) and does not fail.
C2_DefaultIsFirst ==
    (IsCocktailCall /\ (req.name = None \/ req.name = Some(<<>>))) =>
        /\ lookup.ok
        /\ lookup.value = cocktails[1]
        /\ lookup.value.name = Margarita.name

C2_Witness ==
    /\ IsCocktailCall
    /\ req.name = Some(<<>>)
    /\ lookup.ok
    /\ lookup.value.id = Margarita.id

\* C3: a non-empty query that matches no normalized id and no normalized name
\* makes getCocktail fail with an error whose message holds the query as
\* supplied; for "not-a-real-drink" the message holds that text and not
\* "not_a_real_drink".
C3_NotFoundCarriesQuery ==
    (HasQuery /\ Query # <<>> /\ MatchesNothing(Query)) =>
        /\ ~lookup.ok
        /\ Contains(lookup.error.message, Query)
        /\ Query = NotARealDrink =>
              ~Contains(lookup.error.message, normalize(NotARealDrink))

C3_Witness ==
    /\ HasQuery
    /\ Query = NotARealDrink
    /\ ~lookup.ok
    /\ Contains(lookup.error.message, NotARealDrink)

\* C4: when getCocktail fails, the cocktail handler returns a response marked
\* isError whose content is one text item holding the query as supplied, and
\* which has no structuredContent.
C4_FailureResponse ==
    (IsCocktailCall /\ ~lookup.ok) =>
        /\ "isError" \in DOMAIN res
        /\ res.isError = TRUE
        /\ Len(res.content) = 1
        /\ res.content[1].type = "text"
        /\ Contains(res.content[1].text, Query)
        /\ "structuredContent" \notin DOMAIN res

C4_Witness ==
    /\ IsCocktailCall
    /\ ~lookup.ok
    /\ res.isError = TRUE
    /\ Query = <<"a", "-">>

\* C5: when the name resolves, the cocktail handler returns a response not
\* marked as error, carrying the resolved recipe in full, the summary of every
\* catalog recipe in catalog order, and two text items: "<name>: <description>"
\* and the fixed note.
C5_SuccessResponse ==
    (IsCocktailCall /\ lookup.ok) =>
        /\ res.isError = FALSE
        /\ res.structuredContent.cocktail = lookup.value
        /\ Len(res.structuredContent.availableCocktails) = Len(cocktails)
        /\ \A i \in 1..Len(cocktails) :
              LET summary == res.structuredContent.availableCocktails[i]
              IN  /\ summary.id = cocktails[i].id
                  /\ summary.name = cocktails[i].name
                  /\ summary.tagline = cocktails[i].tagline
                  /\ summary.imagePath = cocktails[i].imagePath
        /\ Len(res.content) = 2
        /\ res.content[1] =
              TextItem(lookup.value.name \o <<":", " ">> \o lookup.value.description)
        /\ res.content[2] = TextItem(RenderedNote)

C5_Witness ==
    /\ IsCocktailCall
    /\ lookup.ok
    /\ res.isError = FALSE
    /\ res.structuredContent.cocktail = OldFashioned
    /\ Len(res.content) = 2

\* the lines the list tool is to return for the shipped catalog
ShippedLines ==
    <<BULLET, " ", "M", "a", "r", "g", "a", "r", "i", "t", "a",
      " ", EMDASH, " ", "Classic Cocktail",
      "\n",
      BULLET, " ", "O", "l", "d", " ", "F", "a", "s", "h", "i", "o", "n", "e", "d",
      " ", EMDASH, " ", "Classic Whiskey Cocktail">>

\* C6 as stated: the list tool succeeds without structuredContent and its text
\* is one line per catalog entry in catalog order, "<bullet> <name> <dash>
\* <tagline>", joined by newlines, with nothing else in the text.
C6_OnlyLines ==
    IsListCall =>
        /\ res.isError = FALSE
        /\ "structuredContent" \notin DOMAIN res
        /\ Len(res.content) = 1
        /\ res.content[1].text = ShippedLines

\* C6 amended: the list tool succeeds without structuredContent and its text
\* is the heading "Currently curated cocktails:", a newline, and then one line
\* per catalog entry in catalog order, joined by newlines.
C6_HeadingThenLines ==
    IsListCall =>
        /\ res.isError = FALSE
        /\ "structuredContent" \notin DOMAIN res
        /\ Len(res.content) = 1
        /\ res.content[1].type = "text"
        /\ res.content[1].text =
              <<"Currently curated cocktails:", "\n">> \o ShippedLines

C6_Witness ==
    /\ IsListCall
    /\ res.isError = FALSE
    /\ Contains(res.content[1].text, ShippedLines)

\* C7: listCocktails returns one summary per catalog recipe, in catalog order,
\* each with that recipe's id, name, tagline, subName and imagePath; and two
\* calls in a row return equal sequences.
C7_Summaries ==
    IsSome(listed) =>
        /\ Len(Get(listed)) = Len(cocktails)
        /\ \A i \in 1..Len(cocktails) :
              LET summary == Get(listed)[i]
              IN  /\ DOMAIN summary = {"id", "name", "tagline", "subName", "imagePath"}
                  /\ summary.id = cocktails[i].id
                  /\ summary.name = cocktails[i].name
                  /\ summary.tagline = cocktails[i].tagline
                  /\ summary.subName = cocktails[i].subName
                  /\ summary.imagePath = cocktails[i].imagePath
        /\ IsSome(prevListed) => prevListed = listed

C7_Witness ==
    /\ IsSome(listed)
    /\ IsSome(prevListed)
    /\ Len(Get(listed)) = 2
    /\ Get(listed)[2].subName = OldFashioned.subName

\* C8: no tool invocation changes the catalog: it always holds the recipes it
\* started with, in the same order, so the response to an invocation is the
\* one its input gets on the catalog as it was at the start.
C8_CatalogFixed ==
    /\ cocktails = ShippedCatalog
    /\ IsCocktailCall =>
           res = cocktailWidgetHandler(ShippedCatalog,
                                       getCocktail(ShippedCatalog, req.name))
    /\ IsListCall => res = listCocktailsHandler(ShippedCatalog)

\* a failing call served after two listings, the catalog still as shipped
C8_Witness ==
    /\ IsCocktailCall
    /\ ~lookup.ok
    /\ IsSome(prevListed)
    /\ cocktails = ShippedCatalog

\* an override is set for the unit that was formatted
HasOverride == IsSome(out) /\ IsSome(overrideOf(ingredient, unit))

\* C9 as stated: whenever the ingredient has an override for the requested
\* unit, formatMeasurement returns that override, whatever the multiplier and
\* the measurement are.
C9_OverrideVerbatim ==
    HasOverride => Get(out) = Get(overrideOf(ingredient, unit))

\* C9 amended: whenever the ingredient has a non-empty override for the
\* requested unit, formatMeasurement returns that override, whatever the
\* multiplier and the measurement are.
C9_NonEmptyOverrideVerbatim ==
    (HasOverride /\ Get(overrideOf(ingredient, unit)) # <<>>) =>
        Get(out) = Get(overrideOf(ingredient, unit))

\* 7.5 ml overridden by "2 dashes", formatted for three servings
C9_Witness ==
    /\ HasOverride
    /\ unit = "ml"
    /\ ingredient.measurements.ml = 750
    /\ getServingMultiplier(servingIndex) = 300
    /\ Get(out) = TwoDashes

\* C10: with no override for the requested unit and a measurement of zero,
\* formatMeasurement returns "Dash" for every multiplier and every unit.
C10_ZeroIsDash ==
    (IsSome(out) /\ ~IsSome(overrideOf(ingredient, unit))
                 /\ ingredient.measurements[unit] = 0) =>
        Get(out) = <<"D", "a", "s", "h">>

C10_Witness ==
    /\ IsSome(out)
    /\ ~IsSome(overrideOf(ingredient, unit))
    /\ ingredient.measurements[unit] = 0
    /\ unit = "part"
    /\ getServingMultiplier(servingIndex) = 50
    /\ Get(out) = <<"D", "a", "s", "h">>


\* the place of the first " " of text, Len(text) + 1 when it has none
FirstSpace(text) ==
    IF \E i \in 1..Len(text) : text[i] = " "
    THEN CHOOSE i \in 1..Len(text) :
             text[i] = " " /\ \A j \in 1..(i - 1) : text[j] # " "
    ELSE Len(text) + 1

\* what a rendered quantity shows before and from its first " "
NumberText(text) == SubSeq(text, 1, FirstSpace(text) - 1)
SuffixText(text) == SubSeq(text, FirstSpace(text), Len(text))

IsDigit(c) == \E d \in 1..10 : Digits[d] = c
DigitValue(c) == (CHOOSE d \in 1..10 : Digits[d] = c) - 1

\* the natural number written by a string of digits, 0 for the empty string
RECURSIVE ParseNat(_)
ParseNat(digits) ==
    IF digits = <<>> THEN 0
    ELSE 10 * ParseNat(SubSeq(digits, 1, Len(digits) - 1))
             + DigitValue(digits[Len(digits)])

RECURSIVE Pow10(_)
Pow10(k) == IF k = 0 THEN 1 ELSE 10 * Pow10(k - 1)

\* text is digits, or digits "." and one to four digits
IsDecimal(text) ==
    /\ text # <<>>
    /\ \A i \in 1..Len(text) : IsDigit(text[i]) \/ text[i] = "."
    /\ Cardinality({i \in 1..Len(text) : text[i] = "."}) <= 1
    /\ text[1] # "." /\ text[Len(text)] # "."
    /\ \A i \in 1..Len(text) : text[i] = "." => Len(text) - i <= 4

\* the value of a decimal text, in ten-thousandths
ParseDecimal(text) ==
    IF \E i \in 1..Len(text) : text[i] = "."
    THEN LET dot == CHOOSE i \in 1..Len(text) : text[i] = "."
             fraction == SubSeq(text, dot + 1, Len(text))
         IN  ParseNat(SubSeq(text, 1, dot - 1)) * 10000
                 + ParseNat(fraction) * Pow10(4 - Len(fraction))
    ELSE ParseNat(text) * 10000

\* the row rendered last went down the numeric path without an override
BaseValue == ingredient.measurements[unit]
Servings == getServingMultiplier(servingIndex)
Scaled == BaseValue * Servings
RendersNumber ==
    IsSome(out) /\ ~IsSome(overrideOf(ingredient, unit)) /\ BaseValue # 0
Shown == ParseDecimal(NumberText(Get(out)))

\* the unit suffix of oz and ml rows, the same for every quantity
PlainSuffix == IF unit = "oz" THEN <<" ", "o", "z">> ELSE <<" ", "m", "l">>

\* "2 oz" at multiplier 1, "1 oz" at 0.5, "6 oz" at 3 for oz = 2
C11_Examples ==
    (RendersNumber /\ unit = "oz" /\ BaseValue = 200) =>
        /\ Servings = 100 => Get(out) = <<"2", " ", "o", "z">>
        /\ Servings = 50 => Get(out) = <<"1", " ", "o", "z">>
        /\ Servings = 300 => Get(out) = <<"6", " ", "o", "z">>

\* C11 as stated: without an override and with a non-zero base measurement
\* the number displayed is exactly base x multiplier, oz = 2 gives "2 oz",
\* "1 oz" and "6 oz" at multipliers 1, 0.5 and 3, and oz and ml rows end in
\* " oz" and " ml" whatever the quantity.
C11_DisplaysProduct ==
    /\ C11_Examples
    /\ RendersNumber =>
          /\ IsDecimal(NumberText(Get(out)))
          /\ Shown = Scaled
          /\ unit # "part" => SuffixText(Get(out)) = PlainSuffix

\* C11, amended: the number displayed is base x multiplier rounded to the
\* nearest hundredth when the product is below 1 and to the nearest tenth
\* otherwise (so it is the product itself whenever the product has no
\* more decimals than that); oz = 2 gives "2 oz", "1 oz" and "6 oz" at
\* multipliers 1, 0.5 and 3; oz and ml rows end in " oz" and " ml"
\* whatever the quantity.
C11_DisplaysRoundedProduct ==
    /\ C11_Examples
    /\ RendersNumber =>
          LET step == IF Scaled < 10000 THEN 100 ELSE 1000
          IN  /\ IsDecimal(NumberText(Get(out)))
              /\ Shown % step = 0
              /\ 2 * Shown <= 2 * Scaled + step
              /\ 2 * Scaled <= 2 * Shown + step
              /\ unit # "part" => SuffixText(Get(out)) = PlainSuffix

\* 7.5 ml at half a serving is 3.75 and is shown as "3.8 ml"
C11_Witness ==
    /\ RendersNumber /\ unit = "ml" /\ BaseValue = 750 /\ Servings = 50
    /\ Get(out) = <<"3", ".", "8", " ", "m", "l">>

\* C12: a part row ends in " part" when base x multiplier is 1 and in
\* " parts" for every other product; part = 1 gives "1 part" at multiplier 1
\* and "2 parts" at multiplier 2.
C12_PartPlural ==
    (RendersNumber /\ unit = "part") =>
        /\ SuffixText(Get(out)) =
               (IF Scaled = 10000 THEN <<" ", "p", "a", "r", "t">>
                                  ELSE <<" ", "p", "a", "r", "t", "s">>)
        /\ (BaseValue = 100 /\ Servings = 100) =>
               Get(out) = <<"1", " ", "p", "a", "r", "t">>
        /\ (BaseValue = 100 /\ Servings = 200) =>
               Get(out) = <<"2", " ", "p", "a", "r", "t", "s">>

\* 2 parts at half a serving scale to 1 and read "1 part"
C12_Witness ==
    /\ RendersNumber /\ unit = "part" /\ BaseValue = 200 /\ Servings = 50
    /\ Get(out) = <<"1", " ", "p", "a", "r", "t">>

\* C13: getServingMultiplier maps the serving index 0, 1, 2, 3 to 0.5, 1, 2,
\* 3 and every other index to 1, so whatever servings were selected the
\* multiplier a rendered widget uses is one of 0.5, 1, 2 and 3.
C13_MultiplierOfIndex ==
    \A s \in Sessions :
        Rendered(s) =>
            LET index == State(s).selectedServingIndex
                multiplier == servings(State(s))
            IN  /\ multiplier \in {50, 100, 200, 300}
                /\ index = 0 => multiplier = 50
                /\ index = 1 => multiplier = 100
                /\ index = 2 => multiplier = 200
                /\ index = 3 => multiplier = 300
                /\ index \notin 0..3 => multiplier = 100

\* a serving index past the last option was selected and renders at 1
C13_Witness ==
    /\ Rendered(1)
    /\ State(1).selectedServingIndex = MaxServingIndex
    /\ servings(State(1)) = 100

\* C14: when a tool output arrives at a widget, or a switch it requested
\* succeeds, its currentCocktail and availableCocktails become those of
\* that payload; so after any sequence of deliveries, and whatever else
\* happened since, the widget shows the payload delivered to it last.
C14_ShowsLatestPayload ==
    \A s \in Sessions :
        (IsOpen(s) /\ IsSome(delivered[s])) =>
            /\ State(s).currentCocktail = Some(Get(delivered[s]).cocktail)
            /\ State(s).availableCocktails = Get(delivered[s]).availableCocktails

\* a tool output listing the reordered menu showed the Margarita, then a
\* switch to the Old Fashioned succeeded and brought the shipped menu
C14_Witness ==
    /\ IsOpen(1) /\ ~isPending(1)
    /\ toolOutput[1] = Some(CocktailSuccess(<<OldFashioned, Margarita>>, Margarita).structuredContent)
    /\ delivered[1] = Some(CocktailSuccess(ShippedCatalog, OldFashioned).structuredContent)
    /\ State(1).currentCocktail = Some(OldFashioned)
    /\ State(1).availableCocktails = listCocktails(ShippedCatalog)

\* C15: the unit preference is one value stored under the fixed key
\* "sip-cocktails-measurement" and the last write wins: after any sequence
\* of unit selections made in one or several sessions the stored value is
\* the unit selected last, and the session that selected it has that unit
\* as its selectedMeasurementKey.
C15_LastWriteWins ==
    /\ DOMAIN localStorage \subseteq {"sip-cocktails-measurement"}
    /\ IsSome(lastUnit) =>
          /\ getItem(localStorage, "sip-cocktails-measurement") = Some(Get(lastUnit).unit)
          /\ IsOpen(Get(lastUnit).session) =>
                Some(State(Get(lastUnit).session).selectedMeasurementKey)
                    = getItem(localStorage, "sip-cocktails-measurement")

\* session 1 chose oz, then session 2 chose part: part is stored, session 2
\* shows part and session 1 still shows oz
C15_Witness ==
    /\ lastUnit = Some([session |-> 2, unit |-> "part"])
    /\ getItem(localStorage, MEASUREMENT_STORAGE_KEY) = Some("part")
    /\ IsOpen(1) /\ State(1).selectedMeasurementKey = "oz"
    /\ IsOpen(2) /\ State(2).selectedMeasurementKey = "part"

\* the least of a non-empty set of places
First(places) == CHOOSE i \in places : \A j \in places : i <= j

\* the places of the catalog whose normalized id, or name, is the
\* normalized query
IdPlaces == {i \in 1..Len(cocktails) : normalize(cocktails[i].id) = normalize(Query)}
NamePlaces == {i \in 1..Len(cocktails) : normalize(cocktails[i].name) = normalize(Query)}

\* C16: ids are tried before names: when the normalized query is the
\* normalized id of some recipe, the first such recipe in catalog order is
\* returned, even if an earlier recipe has that normalized name; only when
\* no id matches is the first recipe with that normalized name returned.
C16_IdsBeforeNames ==
    (HasQuery /\ Query # <<>>) =>
        /\ IdPlaces # {} =>
              lookup.ok /\ lookup.value = cocktails[First(IdPlaces)]
        /\ (IdPlaces = {} /\ NamePlaces # {}) =>
              lookup.ok /\ lookup.value = cocktails[First(NamePlaces)]

\* the first recipe matches by name only, the second by id: the second
\* is returned
C16_Witness ==
    /\ HasQuery /\ Query # <<>>
    /\ Len(cocktails) = 2
    /\ NamePlaces = {1, 2} \/ NamePlaces = {1}
    /\ IdPlaces = {2}
    /\ lookup.ok /\ lookup.value = cocktails[2]
    /\ cocktails[2] # cocktails[1]

\* x without the whitespace at its two ends
Core(x) ==
    LET inked == {i \in 1..Len(x) : x[i] \notin Whitespace}
    IN  IF inked = {} THEN <<>>
        ELSE SubSeq(x, CHOOSE i \in inked : \A j \in inked : i <= j,
                       CHOOSE i \in inked : \A j \in inked : j <= i)

\* the lower-case form of a character, read off the table of upper-case forms
Lowered(c) ==
    IF \E l \in DOMAIN UpperOf : UpperOf[l] = c
    THEN CHOOSE l \in DOMAIN UpperOf : UpperOf[l] = c
    ELSE c

\* t after its leading whitespace and hyphens
RECURSIVE DropSeps(_)
DropSeps(t) ==
    IF t # <<>> /\ (Head(t) \in Whitespace \/ Head(t) = "-")
    THEN DropSeps(Tail(t)) ELSE t

\* t read left to right: a run of whitespace and hyphens gives one "_",
\* any other character gives its lower-case form
RECURSIVE Collapse(_)
Collapse(t) ==
    IF t = <<>> THEN <<>>
    ELSE IF Head(t) \in Whitespace \/ Head(t) = "-"
         THEN <<"_">> \o Collapse(DropSeps(t))
         ELSE <<Lowered(Head(t))>> \o Collapse(Tail(t))

\* how many times c stands in t
Count(t, c) == Cardinality({i \in 1..Len(t) : t[i] = c})

\* C17: normalize(x) is x without its leading and trailing whitespace, with
\* every letter lower-cased and every maximal run of whitespace and hyphens
\* replaced by exactly one underscore; the underscores of x are kept and
\* the result holds no whitespace and no hyphen.
C17_NormalForm ==
    IsSome(normOnce) =>
        LET result == Get(normOnce)
        IN  /\ result = Collapse(Core(normInput))
            /\ \A i \in 1..Len(result) :
                  result[i] \notin Whitespace /\ result[i] # "-"
            /\ Count(result, "_") >= Count(normInput, "_")
            /\ Count(result, "a") = Count(normInput, "a")
            /\ Count(result, "b") = Count(normInput, "B")

\* " B -_" loses the blank in front and becomes "b__": one underscore for
\* the run " -" and the one that was there
C17_Witness ==
    /\ normInput = <<" ", "B", " ", "-", "_">> \/ normInput = <<"B", " ", "-", "_">>
    /\ normOnce = Some(<<"b", "_", "_">>)

\* C18: normalize(normalize(x)) = normalize(x) for every string x, also
\* when x begins or ends with hyphens or mixes hyphens, spaces and
\* underscores.
C18_Idempotent ==
    IsSome(normOnce) => normTwice = normOnce

\* "- _-" begins and ends with a hyphen and normalizes to "___", which
\* normalizes to itself
C18_Witness ==
    /\ normInput = <<"-", " ", "_", "-">>
    /\ normOnce = Some(<<"_", "_", "_">>)
    /\ normTwice = Some(<<"_", "_", "_">>)

\* the digits of text before its ".", all of text when it has none
IntegerPart(text) ==
    IF \E i \in 1..Len(text) : text[i] = "."
    THEN SubSeq(text, 1, (CHOOSE i \in 1..Len(text) : text[i] = ".") - 1)
    ELSE text

HasPoint(text) == \E i \in 1..Len(text) : text[i] = "."

\* C19: formatNumber renders an integer as its plain digits; a non-integer
\* is rounded to 2 decimals when it is below 1 and to 1 decimal otherwise,
\* then the zeros that end the fraction and a decimal point left at the end
\* are removed (0.25 reads "0.25", 1.5 reads "1.5", a value that rounds to
\* 2.0 reads "2"); no digit of the integer part is removed (a value that
\* rounds to 10.0 reads "10").
C19_FormatNumber ==
    IsSome(numText) =>
        LET v == numValue.e4
            text == Get(numText)
            shown == ParseDecimal(text)
            step == IF v < 10000 THEN 100 ELSE 1000
        IN  /\ IsDecimal(text)
            /\ Len(IntegerPart(text)) > 1 => text[1] # "0"
            /\ HasPoint(text) => text[Len(text)] # "0"
            /\ v % 10000 = 0 => (~HasPoint(text) /\ shown = v)
            /\ v % 10000 # 0 =>
                  /\ shown % step = 0
                  /\ 2 * shown <= 2 * v + step
                  /\ 2 * v <= 2 * shown + step
            /\ v = 2500 => text = <<"0", ".", "2", "5">>
            /\ v = 15000 => text = <<"1", ".", "5">>
            /\ v \in {20000, 20400} => text = <<"2">>
            /\ v \in {100000, 100200} => text = <<"1", "0">>

\* 10.02 is rounded to "10.0", which loses its fraction and keeps "10"
C19_Witness ==
    /\ numValue = Number(100200, TRUE)
    /\ numText = Some(<<"1", "0">>)

\* the measurements of the recipes are numbers >= 0 for ml, oz and part
CatalogMeasured ==
    \A i \in 1..Len(cocktails) :
        \A k \in 1..Len(cocktails[i].ingredients) :
            LET measurements == cocktails[i].ingredients[k].measurements
            IN  /\ DOMAIN measurements = Units
                /\ \A u \in Units : measurements[u] \in Nat

\* C20: every ingredient of every catalog recipe has a measurement >= 0 for
\* each of ml, oz and part; where such a measurement is zero the row reads
\* the override for that unit when there is one and "Dash" when there is none.
C20_CatalogRows ==
    /\ CatalogMeasured
    /\ (IsSome(out) /\ ingredient \in CatalogIngredients /\ BaseValue = 0) =>
          Get(out) = (IF IsSome(overrideOf(ingredient, unit))
                      THEN Get(overrideOf(ingredient, unit))
                      ELSE DASH)

\* the cherry of the Old Fashioned measures 0 ml and reads "1 cherry"
C20_Witness ==
    /\ IsSome(out) /\ unit = "ml"
    /\ ingredient \in CatalogIngredients
    /\ ingredient.ingredient = ingredients.maraschino_cherries
    /\ BaseValue = 0
    /\ Get(out) = <<"1", " ", "c", "h", "e", "r", "r", "y">>

\* C21: in the catalog every recipe id is unique and is its own normal
\* form, the names are pairwise distinct after normalization, and no
\* recipe's normalized name is the normalized id of another recipe.
C21_CatalogKeys ==
    \A i \in 1..Len(cocktails) :
        /\ normalize(cocktails[i].id) = cocktails[i].id
        /\ \A j \in 1..Len(cocktails) :
              i # j =>
                  /\ cocktails[i].id # cocktails[j].id
                  /\ normalize(cocktails[i].name) # normalize(cocktails[j].name)
                  /\ normalize(cocktails[i].name) # normalize(cocktails[j].id)

\* the catalog has served a call and holds two recipes, one of them with
\* a name that normalizes to its own id
C21_Witness ==
    /\ IsCocktailCall
    /\ Len(cocktails) = 2
    /\ normalize(cocktails[2].name) = cocktails[2].id
    /\ cocktails[1].id # cocktails[2].id

\* session s changes its serving index, unit, note, bookmark or rating
ChangesOwnFields(s) ==
    \/ \E index \in ServingIndexInputs : handleServingChange(s, index)
    \/ \E u \in Units : handleMeasurementChange(s, u)
    \/ \E note \in NoteInputs : handleNoteChange(s, note)
    \/ toggleBookmark(s)
    \/ toggleRating(s)

\* C22: widget state is private to a session: when one session changes its
\* serving index, unit, note, bookmark or rating, the state of every other
\* session stays as it was (the stored unit may change, but an open session
\* does not read it); a session adopts the stored unit only when it mounts.
C22_SessionsPrivate ==
    [][\A s \in Sessions :
          /\ ChangesOwnFields(s) =>
                \A t \in Sessions \ {s} : widgetState'[t] = widgetState[t]
          /\ (IsOpen(s) /\ IsOpen(s)' /\ localStorage' # localStorage) =>
                \/ ChangesOwnFields(s)
                \/ widgetState'[s] = widgetState[s]]_vars

\* session 1 changed all five fields and stored "oz"; session 2, open
\* since before, still has the state it mounted with
C22_Witness ==
    /\ IsOpen(1) /\ IsOpen(2)
    /\ State(1).selectedMeasurementKey = "oz"
    /\ State(1).selectedServingIndex = 0
    /\ State(1).userNote = <<"x">>
    /\ State(1).isBookmarked
    /\ State(1).rating = 1
    /\ getItem(localStorage, MEASUREMENT_STORAGE_KEY) = Some("oz")
    /\ lastUnit = Some([session |-> 1, unit |-> "oz"])
    /\ State(2) = [InitialWidgetState(Some(FirstOutput)) EXCEPT !.selectedMeasurementKey = "part"]

\* C23: every id in the list of listCocktails resolves: getCocktail of that
\* id returns the recipe with that id and does not throw; hence the switch
\* request a widget has in flight, issued from one of its buttons, gets a
\* success response carrying the recipe asked for, never the error response.
C23_ListedIdsResolve ==
    /\ \A i \in 1..Len(listCocktails(cocktails)) :
          LET summary == listCocktails(cocktails)[i]
              found == getCocktail(cocktails, Some(summary.id))
          IN  found.ok /\ found.value.id = summary.id
    /\ \A s \in Sessions :
          \A k \in 1..Len(pending[s]) :
              /\ ~ResponseTo(pending[s][k]).isError
              /\ Some(ResponseTo(pending[s][k]).structuredContent.cocktail.id)
                     = pending[s][k].name

\* the Margarita is shown and a switch to the Old Fashioned is in flight
C23_Witness ==
    /\ Rendered(1) /\ isPending(1)
    /\ State(1).currentCocktail = Some(Margarita)
    /\ pending[1] = <<[name |-> Some(OldFashioned.id)]>>
    /\ ResponseTo(pending[1][1]).structuredContent.cocktail = OldFashioned

\* C24: a widget has at most one switch request in flight: while a call
\* is pending every switch button is disabled, so no second call is issued
\* before the first completes; and the button of the cocktail shown is
\* disabled at all times.
C24_OneSwitchInFlight ==
    \A s \in Sessions :
        /\ Len(pending[s]) <= 1
        /\ Rendered(s) =>
              /\ disabled(State(s), Get(State(s).currentCocktail).id, isPending(s))
              /\ isPending(s) =>
                    \A cocktailId \in ButtonIds(s) :
                        disabled(State(s), cocktailId, isPending(s))

\* a switch to the Margarita is in flight and the Old Fashioned arrived as
\* a tool output meanwhile: the Margarita button, not the one of the
\* cocktail shown, is disabled by the call alone
C24_Witness ==
    /\ Rendered(1)
    /\ pending[1] = <<[name |-> Some(Margarita.id)]>>
    /\ State(1).currentCocktail = Some(OldFashioned)
    /\ Margarita.id \in ButtonIds(1)
    /\ disabled(State(1), Margarita.id, isPending(1))

\* the fields of WidgetState
WidgetFields ==
    {"currentCocktail", "availableCocktails", "selectedMeasurementKey",
     "selectedServingIndex", "userNote", "isBookmarked", "rating"}

\* in this step session s stays open and its state changes in no field
\* other than those of `fields`
ChangesOnly(s, fields) ==
    /\ IsOpen(s)'
    /\ DOMAIN State(s)' = WidgetFields
    /\ \A f \in WidgetFields \ fields : State(s)'[f] = State(s)[f]

\* C25: each widget update changes only its own fields:
\* handleServingChange only selectedServingIndex, handleNoteChange only
\* userNote, toggleBookmark only isBookmarked, toggleRating only rating,
\* handleMeasurementChange only selectedMeasurementKey (and the stored
\* unit); a tool output or a successful switch changes only
\* currentCocktail and availableCocktails.
C25_OwnFieldsOnly ==
    [][\A s \in Sessions :
          /\ (\E index \in ServingIndexInputs : handleServingChange(s, index)) =>
                ChangesOnly(s, {"selectedServingIndex"}) /\ localStorage' = localStorage
          /\ (\E note \in NoteInputs : handleNoteChange(s, note)) =>
                ChangesOnly(s, {"userNote"}) /\ localStorage' = localStorage
          /\ toggleBookmark(s) =>
                ChangesOnly(s, {"isBookmarked"}) /\ localStorage' = localStorage
          /\ toggleRating(s) =>
                ChangesOnly(s, {"rating"}) /\ localStorage' = localStorage
          /\ (\E u \in Units : handleMeasurementChange(s, u)) =>
                ChangesOnly(s, {"selectedMeasurementKey"})
          /\ ((\E data \in ToolOutputInputs : ToolOutputArrives(s, data))
                  \/ SwitchSucceeds(s)) =>
                /\ ChangesOnly(s, {"currentCocktail", "availableCocktails"})
                /\ localStorage' = localStorage]_vars

\* every field the user can set is off its default, and the cocktail
\* shown came with a switch after the tool output
C25_Witness ==
    /\ Rendered(1)
    /\ State(1).selectedMeasurementKey = "part"
    /\ State(1).selectedServingIndex = 3
    /\ State(1).userNote = <<"x">>
    /\ State(1).isBookmarked
    /\ State(1).rating = 1
    /\ toolOutput[1] = Some(FirstOutput)
    /\ delivered[1] = Some(SecondOutput)
    /\ State(1).currentCocktail = Some(OldFashioned)

\* the ids a session may hand to handleSelectCocktail
ListedIds == {ShippedCatalog[i].id : i \in 1..Len(ShippedCatalog)}

\* C26: handleSelectCocktail called with the id of the cocktail shown issues
\* no tool call and leaves the whole widget state as it was; called with
\* any other id it issues exactly one cocktail call, whose name is that id,
\* and leaves the widget state as it was until the call completes.
C26_SelectCocktail ==
    [][\A s \in Sessions : \A cocktailId \in ListedIds :
          handleSelectCocktail(s, cocktailId) =>
              /\ widgetState' = widgetState
              /\ toolOutput' = toolOutput
              /\ localStorage' = localStorage
              /\ \A t \in Sessions \ {s} : pending'[t] = pending[t]
              /\ IF cocktailId = Get(State(s).currentCocktail).id
                 THEN pending'[s] = pending[s]
                 ELSE pending'[s] = pending[s] \o <<[name |-> Some(cocktailId)]>>]_vars

\* the Margarita is shown and the one call in flight asks for the Old
\* Fashioned
C26_Witness ==
    /\ Rendered(1)
    /\ State(1).currentCocktail = Some(Margarita)
    /\ State(1).isBookmarked
    /\ pending[1] = <<[name |-> Some(OldFashioned.id)]>>

\* what is stored under the key of the unit preference
StoredUnit == getItem(localStorage, MEASUREMENT_STORAGE_KEY)

\* C27: a widget that mounts adopts the stored unit only when it is ml, oz
\* or part; an absent or unrecognised stored value leaves the default ml
\* and is not overwritten by the mount.  So selectedMeasurementKey is one
\* of ml, oz, part in every state of every open session.
C27_MountAdoptsValidUnit ==
    /\ [](\A s \in Sessions :
            IsOpen(s) => State(s).selectedMeasurementKey \in {"ml", "oz", "part"})
    /\ [][\A s \in Sessions :
            (Mount(s, None) \/ \E data \in ToolOutputInputs : Mount(s, Some(data))) =>
                /\ localStorage' = localStorage
                /\ State(s)'.selectedMeasurementKey =
                       (IF IsSome(StoredUnit) /\ Get(StoredUnit) \in {"ml", "oz", "part"}
                        THEN Get(StoredUnit)
                        ELSE "ml")]_vars

\* "cups" is stored; a session has mounted with ml and "cups" is still
\* stored
C27_Witness ==
    /\ StoredUnit = Some("cups")
    /\ lastUnit = None
    /\ IsOpen(1)
    /\ State(1).selectedMeasurementKey = "ml"

\* the query is not empty and every character of it is whitespace
IsBlank(q) == q # <<>> /\ \A i \in 1..Len(q) : q[i] \in Whitespace

\* C28: a non-empty query made of whitespace only is not treated as absent:
\* its normalized key is empty and matches nothing, getCocktail fails with
\* the not-found error instead of returning the default recipe, and the
\* cocktail handler returns the error response.
C28_BlankQueryFails ==
    (HasQuery /\ IsBlank(Query)) =>
        /\ normalize(Query) = <<>>
        /\ MatchesNothing(Query)
        /\ ~lookup.ok
        /\ lookup.error.message = NotFoundMessage(Query)
        /\ res = CocktailFailure(lookup.error)
        /\ res.isError = TRUE
        /\ "structuredContent" \notin DOMAIN res

C28_Witness ==
    /\ HasQuery
    /\ Query = <<" ", " ">>
    /\ ~lookup.ok
    /\ res.isError = TRUE

\* C29: for unit part, with no override, a positive measurement in
\* hundredths and a multiplier among 0.5, 1, 2 and 3, the suffix agrees with
\* the number shown: the text ends in " part" exactly when the number shown
\* is "1" and in " parts" otherwise, so that "1 parts" is never shown.
C29_SuffixAgreesWithNumber ==
    (/\ IsSome(out)
     /\ unit = "part"
     /\ ~IsSome(overrideOf(ingredient, "part"))
     /\ ingredient.measurements.part > 0
     /\ getServingMultiplier(servingIndex) \in {50, 100, 200, 300}) =>
        /\ SuffixText(Get(out)) \in {<<" ", "p", "a", "r", "t">>,
                                     <<" ", "p", "a", "r", "t", "s">>}
        /\ SuffixText(Get(out)) = <<" ", "p", "a", "r", "t">>
               <=> NumberText(Get(out)) = <<"1">>
        /\ Get(out) # <<"1", " ", "p", "a", "r", "t", "s">>

\* 1.02 part at one serving is shown as "1 parts"
C29_Witness ==
    /\ unit = "part"
    /\ ingredient.measurements.part = 102
    /\ getServingMultiplier(servingIndex) = 100
    /\ out = Some(<<"1", " ", "p", "a", "r", "t", "s">>)

========================================================================
